---- MODULE Spec2Model ----
(***************************************************************************)
(* A model of package journalentry (src/journalentry.go): the Entry type,  *)
(* PromptForMetadata and its prompts() map, New / Load / Save against one  *)
(* backing file, Date() over the shared entryFormat, IsEntry over          *)
(* entryRegex, and Words() over wordRegex.                                 *)
(*                                                                         *)
(* Text is modelled as sequences of one-character strings.  The            *)
(* specifications share the variables:                                     *)
(*   SpecPrompt    PromptForMetadata on an Entry and an input stream       *)
(*   SpecLine      PromptForMetadata on lines of every kind                *)
(*   SpecLineFair  SpecLine with the call's steps taken when they can be   *)
(*   SpecFile      New, Save, Load and writes by other programs            *)
(*   SpecDate      path generation and Date()                              *)
(*   SpecName      IsEntry                                                 *)
(*   SpecWords     Words()                                                 *)
(***************************************************************************)
EXTENDS Integers, Sequences, FiniteSets, TLC

VARIABLES
    p,        \* the Entry: Seconds, LowMood, HighMood, AverageMood, Body, Path, ModTime
    \* ---- PromptForMetadata
    input,    \* bytes not yet delivered by the io.Reader handed to the call
    inErr,    \* the error the io.Reader returns once it has no more bytes
    rdKind,   \* how much one Read of the io.Reader delivers: "line" or "bulk"
    buf,      \* bytes held by the call's bufio.Reader r
    out,      \* the writes made to w, in order
    pc,       \* position of the call: "idle", "range", "ask", "done"
    pr,       \* the map returned by prompts(): prompt string -> setter
    todo,     \* keys of pr the range loop has not visited yet
    cur,      \* the key of the current iteration of the range loop
    ret,      \* the error returned by the last call ("none" while running)
    calls,    \* number of calls of PromptForMetadata started
    nreads,   \* ReadString calls made by the current call
    p0,       \* the Entry when the current call started
    in0,      \* input when the current call started
    out0,     \* Len(out) when the current call started
    order,    \* the keys in the order the range loop visited them in this call
    lastRd,   \* the error of the last ReadString of this call ("none" before any)
    prevRet,  \* the error returned by the call before the current one
    \* ---- New, Save, Load
    today,    \* the calendar date of time.Now()
    clock,    \* the wall clock reading of time.Now()
    fs,       \* the file named by Path: exists, data, mtime
    live,     \* whether the caller holds an Entry (New returned a non-nil p)
    op,       \* the last operation: "none", "New", "Save", "Load", "Edit", "Write", "Make"
    res,      \* what the last operation returned: err and, for Load, modified
    fault,    \* the failure of the last operation's own I/O step, "none" if none
    preMod,   \* ModTime before the last operation
    saved,    \* the Entry as it was at the Save that wrote the file's present content
    wr,       \* who wrote the file's present content: "none", "save", "partial", "other"
    \* ---- Date, IsEntry
    dateRes,  \* what the last call of Date() returned: t and err ("none" before any)
    name,     \* the path handed to IsEntry
    isEntry,  \* what IsEntry returned for name: "true", "false" ("none" before the call)
    words     \* what the last call of Words() returned: done and the list of words

promptVars == <<input, inErr, rdKind, buf, out, pc, pr, todo, cur, ret, calls,
                nreads, p0, in0, out0, order, lastRd, prevRet>>

fileVars == <<today, clock, fs, live, op, res, fault, preMod, saved, wr>>

pureVars == <<dateRes, name, isEntry, words>>

vars == <<p, promptVars, fileVars, pureVars>>

----------------------------------------------------------------------------
(* Bounds of the model *)

\* lines (each ended by a line break) on the input stream
MaxLines == 3
\* calls of PromptForMetadata in one behaviour
MaxCalls == 2
\* ticks of the wall clock in one behaviour
MaxClock == 2

----------------------------------------------------------------------------
(* Characters and small text helpers *)

Digits == <<"0", "1", "2", "3", "4", "5", "6", "7", "8", "9">>

IsDigit(c) == \E i \in 1..10 : Digits[i] = c

DigitVal(c) == (CHOOSE i \in 1..10 : Digits[i] = c) - 1

\* unicode.IsSpace on the ASCII range, as used by strings.TrimSpace and \s
IsSpace(c) == c \in {" ", "\t", "\n", "\r", "\f"}

NL == "\n"

RECURSIVE Concat(_)
Concat(ss) == IF ss = <<>> THEN <<>> ELSE Head(ss) \o Concat(Tail(ss))

\* the sequences over S of length at most n
RECURSIVE SeqsUpTo(_, _)
SeqsUpTo(S, n) ==
    IF n = 0 THEN { <<>> }
    ELSE SeqsUpTo(S, n - 1)
         \cup { Append(s, x) : s \in { t \in SeqsUpTo(S, n - 1) : Len(t) = n - 1 }, x \in S }

\* index of the first occurrence of c in s, 0 when there is none
RECURSIVE IndexFrom(_, _, _)
IndexFrom(s, c, i) ==
    IF i > Len(s) THEN 0 ELSE IF s[i] = c THEN i ELSE IndexFrom(s, c, i + 1)

IndexOf(s, c) == IndexFrom(s, c, 1)

\* strings.TrimSpace
TrimSpace(s) ==
    IF \A i \in 1..Len(s) : IsSpace(s[i]) THEN <<>>
    ELSE LET a == CHOOSE i \in 1..Len(s) :
                      ~IsSpace(s[i]) /\ \A j \in 1..(i - 1) : IsSpace(s[j])
             b == CHOOSE i \in 1..Len(s) :
                      ~IsSpace(s[i]) /\ \A j \in (i + 1)..Len(s) : IsSpace(s[j])
         IN  SubSeq(s, a, b)

----------------------------------------------------------------------------
(* The Entry *)

\* a time.Time: the wall clock reading, and whether the value carries a
\* monotonic clock reading (time.Now() does, a file's ModTime does not);
\* Go's != on time.Time compares both
ZeroTime == [wall |-> 0, mono |-> FALSE]

\* the zero value of Entry
ZeroEntry ==
    [Seconds |-> 0, LowMood |-> 0, HighMood |-> 0, AverageMood |-> 0,
     Body |-> <<>>, Path |-> <<>>, ModTime |-> ZeroTime]

\* the result recorded while Words() has not been called
NoWords == [done |-> FALSE, list |-> <<>>]

\* the result recorded while Date() has not been called
NoDate == [t |-> [y |-> 0, m |-> 0, d |-> 0], err |-> "none"]

----------------------------------------------------------------------------
(* PromptForMetadata *)

ratingChars == {"1", "2", "3", "4", "5"}

\* the expression without its $: a rating at the start is enough
MatchRating_Prefix(s) == Len(s) >= 1 /\ s[1] \in ratingChars

\* regexp ratingRegex = `^[1-5]$` applied to a whole string
MatchRating(s) == Len(s) = 1 /\ s[1] \in ratingChars

\* strconv.ParseUint(input, 10, 8) on a string of digits; 0 with an error
\* when the value does not fit 8 bits
RECURSIVE ParseDec(_)
ParseDec(s) == IF s = <<>> THEN 0 ELSE 10 * ParseDec(SubSeq(s, 1, Len(s) - 1)) + DigitVal(s[Len(s)])

ParseUint8(s) ==
    IF s # <<>> /\ (\A i \in 1..Len(s) : IsDigit(s[i])) /\ ParseDec(s) < 256
    THEN [val |-> ParseDec(s), err |-> "nil"]
    ELSE [val |-> 0, err |-> "ErrSyntax"]

HighPrompt == "High mood for the day? (1-5) "
LowPrompt == "Low mood for the day? (1-5) "
AvgPrompt == "Average mood for the day? (1-5) "
Unrecognized == "Unrecognized input\n"

\* setLowMood, setHighMood, setAvgMood
setLowMood_SetsHigh(e, rating) == [e EXCEPT !.HighMood = rating]

setAvgMood_SetsSeconds(e, rating) == [e EXCEPT !.Seconds = rating]

setLowMood(e, rating) == [e EXCEPT !.LowMood = rating]
setHighMood(e, rating) == [e EXCEPT !.HighMood = rating]
setAvgMood(e, rating) == [e EXCEPT !.AverageMood = rating]

ApplySetter(setter, e, rating) ==
    CASE setter = "setHighMood" -> setHighMood(e, rating)
      [] setter = "setLowMood" -> setLowMood(e, rating)
      [] setter = "setAvgMood" -> setAvgMood(e, rating)

prompts_HighAlways(e) ==
    LET keys == {HighPrompt}
                \cup (IF e.LowMood = 0 THEN {LowPrompt} ELSE {})
                \cup (IF e.AverageMood = 0 THEN {AvgPrompt} ELSE {})
    IN  [k \in keys |-> CASE k = HighPrompt -> "setHighMood"
                          [] k = LowPrompt -> "setLowMood"
                          [] k = AvgPrompt -> "setAvgMood"]

\* prompts(): a map with one key per mood field that is 0
prompts(e) ==
    LET keys == (IF e.HighMood = 0 THEN {HighPrompt} ELSE {})
                \cup (IF e.LowMood = 0 THEN {LowPrompt} ELSE {})
                \cup (IF e.AverageMood = 0 THEN {AvgPrompt} ELSE {})
    IN  [k \in keys |-> CASE k = HighPrompt -> "setHighMood"
                          [] k = LowPrompt -> "setLowMood"
                          [] k = AvgPrompt -> "setAvgMood"]

\* the keys a range over a Go map may visit next: the iteration order of a
\* map is unspecified, so any key not visited yet
RangeNext(remaining) == remaining

\* One Read of the underlying io.Reader: a terminal delivers a line at a
\* time, a file or an in-memory reader everything it has.
ReadChunk(in, kind) ==
    IF kind = "line" /\ IndexOf(in, NL) # 0 THEN IndexOf(in, NL) ELSE Len(in)

\* r.ReadString('\n') on a bufio.Reader holding b over a reader holding in:
\* fills until b has a line break or the reader fails; returns the line with
\* its line break, or what was buffered together with the reader's error.
RECURSIVE ReadString(_, _, _, _)
ReadString(b, in, kind, e) ==
    IF IndexOf(b, NL) # 0
    THEN [line |-> SubSeq(b, 1, IndexOf(b, NL)), err |-> "nil",
          buf |-> SubSeq(b, IndexOf(b, NL) + 1, Len(b)), input |-> in]
    ELSE IF in = <<>>
    THEN [line |-> b, err |-> e, buf |-> <<>>, input |-> in]
    ELSE ReadString(b \o SubSeq(in, 1, ReadChunk(in, kind)),
                    SubSeq(in, ReadChunk(in, kind) + 1, Len(in)), kind, e)

\* entry of PromptForMetadata: r := bufio.NewReader(reader); the range
\* expression p.prompts() is evaluated once
Call ==
    /\ pc \in {"idle", "done"}
    /\ calls < MaxCalls
    /\ calls' = calls + 1
    /\ buf' = <<>>
    /\ pr' = prompts(p)
    /\ todo' = DOMAIN prompts(p)
    /\ cur' = ""
    /\ ret' = "none"
    /\ nreads' = 0
    /\ p0' = p
    /\ in0' = input
    /\ out0' = Len(out)
    /\ order' = <<>>
    /\ lastRd' = "none"
    /\ prevRet' = ret
    /\ pc' = "range"
    /\ UNCHANGED <<p, input, inErr, rdKind, out, fileVars, pureVars>>

\* the range loop takes its next key, or ends and the call returns the
\* named result err, which is nil
Range ==
    /\ pc = "range"
    /\ IF todo = {}
       THEN /\ pc' = "done"
            /\ ret' = "nil"
            /\ UNCHANGED <<cur, todo, order>>
       ELSE \E k \in RangeNext(todo) :
              /\ cur' = k
              /\ todo' = todo \ {k}
              /\ order' = Append(order, k)
              /\ pc' = "ask"
              /\ ret' = ret
    /\ UNCHANGED <<p, input, inErr, rdKind, buf, out, pr, calls, nreads, p0, in0,
                   out0, lastRd, prevRet, fileVars, pureVars>>

\* a rejected line ends the field's loop
AskStep_RejectAdvances(e, setter, prompt, rd) ==
    LET trimmed == TrimSpace(rd.line)
    IN  IF rd.err # "nil"
        THEN [p |-> e, out |-> <<prompt>>, pc |-> "done", ret |-> rd.err]
        ELSE IF MatchRating(trimmed)
        THEN [p |-> ApplySetter(setter, e, ParseUint8(trimmed).val), out |-> <<prompt>>,
              pc |-> "range", ret |-> "none"]
        ELSE [p |-> e, out |-> <<prompt, Unrecognized>>, pc |-> "range", ret |-> "none"]

\* a failed read is answered like a rejected line: the loop goes round
AskStep_ReadErrorRetries(e, setter, prompt, rd) ==
    LET trimmed == TrimSpace(rd.line)
    IN  IF rd.err = "nil" /\ MatchRating(trimmed)
        THEN [p |-> ApplySetter(setter, e, ParseUint8(trimmed).val), out |-> <<prompt>>,
              pc |-> "range", ret |-> "none"]
        ELSE [p |-> e, out |-> <<prompt, Unrecognized>>, pc |-> "ask", ret |-> "none"]

\* what ReadString returned with its error is used before the error is
\* looked at
AskStep_AppliesPartialLine(e, setter, prompt, rd) ==
    LET trimmed == TrimSpace(rd.line)
    IN  IF MatchRating(trimmed)
        THEN [p |-> ApplySetter(setter, e, ParseUint8(trimmed).val), out |-> <<prompt>>,
              pc |-> IF rd.err # "nil" THEN "done" ELSE "range",
              ret |-> IF rd.err # "nil" THEN rd.err ELSE "none"]
        ELSE IF rd.err # "nil"
        THEN [p |-> e, out |-> <<prompt>>, pc |-> "done", ret |-> rd.err]
        ELSE [p |-> e, out |-> <<prompt, Unrecognized>>, pc |-> "ask", ret |-> "none"]

\* a failed read breaks out of the field's loop instead of returning
AskStep_ReadErrorSkips(e, setter, prompt, rd) ==
    LET trimmed == TrimSpace(rd.line)
    IN  IF rd.err # "nil"
        THEN [p |-> e, out |-> <<prompt>>, pc |-> "range", ret |-> "none"]
        ELSE IF MatchRating(trimmed)
        THEN [p |-> ApplySetter(setter, e, ParseUint8(trimmed).val), out |-> <<prompt>>,
              pc |-> "range", ret |-> "none"]
        ELSE [p |-> e, out |-> <<prompt, Unrecognized>>, pc |-> "ask", ret |-> "none"]

\* the fields and output after one pass of the inner for loop, given the
\* result rd of ReadString
AskStep(e, setter, prompt, rd) ==
    LET trimmed == TrimSpace(rd.line)
        parsed == ParseUint8(trimmed)
    IN  IF rd.err # "nil"
        THEN [p |-> e, out |-> <<prompt>>, pc |-> "done", ret |-> rd.err]
        ELSE IF MatchRating(trimmed)
        THEN IF parsed.err # "nil"
             THEN [p |-> e, out |-> <<prompt>>, pc |-> "done", ret |-> parsed.err]
             ELSE [p |-> ApplySetter(setter, e, parsed.val), out |-> <<prompt>>,
                   pc |-> "range", ret |-> "none"]
        ELSE [p |-> e, out |-> <<prompt, Unrecognized>>, pc |-> "ask", ret |-> "none"]

\* one pass of the inner for loop: print the prompt, read a line, then
\* return the error, or set the field and break, or reject and go round
Ask ==
    /\ pc = "ask"
    /\ \E rd \in {ReadString(buf, input, rdKind, inErr)} :
       \E st \in {AskStep(p, pr[cur], cur, rd)} :
           /\ p' = st.p
           /\ out' = out \o st.out
           /\ pc' = st.pc
           /\ ret' = st.ret
           /\ buf' = rd.buf
           /\ input' = rd.input
           /\ lastRd' = rd.err
    /\ nreads' = nreads + 1
    /\ UNCHANGED <<inErr, rdKind, pr, todo, cur, calls, p0, in0, out0, order, prevRet,
                   fileVars, pureVars>>

----------------------------------------------------------------------------
(* Dates and the entry file name *)

\* a calendar date is a record [y, m, d]
IsLeap(y) == (y % 4 = 0) /\ ((y % 100 # 0) \/ (y % 400 = 0))

DaysIn(m, y) ==
    IF m = 2 THEN (IF IsLeap(y) THEN 29 ELSE 28)
    ELSE IF m \in {4, 6, 9, 11} THEN 30 ELSE 31

\* time's shortMonthNames
ShortMonthNames ==
    << <<"J", "a", "n">>, <<"F", "e", "b">>, <<"M", "a", "r">>, <<"A", "p", "r">>,
       <<"M", "a", "y">>, <<"J", "u", "n">>, <<"J", "u", "l">>, <<"A", "u", "g">>,
       <<"S", "e", "p">>, <<"O", "c", "t">>, <<"N", "o", "v">>, <<"D", "e", "c">> >>

\* the decimal digits of n >= 0
RECURSIVE FormatDec(_)
FormatDec(n) ==
    IF n < 10 THEN <<Digits[n + 1]>> ELSE FormatDec(n \div 10) \o <<Digits[(n % 10) + 1]>>

\* n written with at least w digits, padded with zeros on the left
RECURSIVE ZeroPad(_, _)
ZeroPad(s, w) == IF Len(s) >= w THEN s ELSE ZeroPad(<<"0">> \o s, w)

\* entryFormat = "2006-01-02-Journal-Entry-for-Jan-2" + ".md", cut into the
\* chunks time.Format and time.Parse see: layout elements and literal text
LitJournal ==
    <<"-", "J", "o", "u", "r", "n", "a", "l", "-", "E", "n", "t", "r", "y", "-",
      "f", "o", "r", "-">>

LitExt == <<".", "m", "d">>

entryFormat ==
    << [std |-> "2006", lit |-> <<>>], [std |-> "lit", lit |-> <<"-">>],
       [std |-> "01", lit |-> <<>>], [std |-> "lit", lit |-> <<"-">>],
       [std |-> "02", lit |-> <<>>], [std |-> "lit", lit |-> LitJournal],
       [std |-> "Jan", lit |-> <<>>], [std |-> "lit", lit |-> <<"-">>],
       [std |-> "2", lit |-> <<>>], [std |-> "lit", lit |-> LitExt] >>

\* what time.Format writes for one chunk of the layout
FormatChunk(c, t) ==
    CASE c.std = "2006" -> ZeroPad(FormatDec(t.y), 4)
      [] c.std = "01" -> ZeroPad(FormatDec(t.m), 2)
      [] c.std = "02" -> ZeroPad(FormatDec(t.d), 2)
      [] c.std = "Jan" -> ShortMonthNames[t.m]
      [] c.std = "2" -> FormatDec(t.d)
      [] c.std = "lit" -> c.lit

\* time.Time.Format(layout)
Format(layout, t) == Concat([i \in 1..Len(layout) |-> FormatChunk(layout[i], t)])

Sep == "/"

\* filepath.Base for a path with no trailing separator
Base(path) ==
    IF \E i \in 1..Len(path) : path[i] = Sep
    THEN SubSeq(path, (CHOOSE i \in 1..Len(path) :
                          path[i] = Sep /\ \A j \in (i + 1)..Len(path) : path[j] # Sep) + 1,
                Len(path))
    ELSE path

----------------------------------------------------------------------------
(* The metadata block: frontmatter.Marshal and frontmatter.Unmarshal *)

Delim == <<"-", "-", "-", NL>>

KeySeconds == <<"S", "e", "c", "o", "n", "d", "s">>
KeyLowMood == <<"L", "o", "w", "M", "o", "o", "d">>
KeyHighMood == <<"H", "i", "g", "h", "M", "o", "o", "d">>
KeyAverageMood == <<"A", "v", "e", "r", "a", "g", "e", "M", "o", "o", "d">>

KVLine(key, n) == key \o <<":", " ">> \o FormatDec(n) \o <<NL>>

\* the header of an Entry: a delimiter line, one "key: value" line per
\* metadata field, a delimiter line.  Body, Path and ModTime are not in it.
Marshal(e) ==
    Delim \o KVLine(KeySeconds, e.Seconds) \o KVLine(KeyLowMood, e.LowMood)
          \o KVLine(KeyHighMood, e.HighMood) \o KVLine(KeyAverageMood, e.AverageMood)
          \o Delim

AllDigits(s) == s # <<>> /\ \A i \in 1..Len(s) : IsDigit(s[i])

\* the lines of h, a text whose every line ends with a line break
HeaderLines(h) ==
    LET nls == {i \in 1..Len(h) : h[i] = NL}
        start(j) == IF \E i \in nls : i < j
                    THEN (CHOOSE i \in nls : i < j /\ \A x \in nls : x < j => x <= i) + 1
                    ELSE 1
    IN  { <<start(j), j - 1>> : j \in nls }

\* one header line "key: value": its key, its value, and whether it is
\* well formed
DecodeLine(line) ==
    LET c == IndexOf(line, ":")
        val == TrimSpace(SubSeq(line, c + 1, Len(line)))
    IN  IF c = 0 \/ ~AllDigits(val)
        THEN [key |-> <<>>, n |-> 0, ok |-> FALSE]
        ELSE [key |-> SubSeq(line, 1, c - 1), n |-> ParseDec(val), ok |-> TRUE]

\* the largest value a field takes: uint16 for Seconds, uint8 for the moods
FieldMax(key) == IF key = KeySeconds THEN 65535 ELSE 255

FieldKeys == {KeySeconds, KeyLowMood, KeyHighMood, KeyAverageMood}

\* Unmarshal(data, p): the fields named in the leading metadata block are
\* stored in e and the rest of data is returned as the body; a block that is
\* not opened, not closed or not well formed is an error and stores nothing
Unmarshal(data, e) ==
    LET bad == [e |-> e, body |-> <<>>, err |-> "ErrParse"]
        ends == {i \in (Len(Delim) + 1)..(Len(data) - Len(Delim) + 1) :
                    data[i - 1] = NL /\ SubSeq(data, i, i + Len(Delim) - 1) = Delim}
        close == CHOOSE i \in ends : \A j \in ends : i <= j
        h == SubSeq(data, Len(Delim) + 1, close - 1)
        decs == { DecodeLine(SubSeq(h, r[1], r[2])) : r \in HeaderLines(h) }
        has(key) == \E d \in decs : d.key = key
        val(key, old) == IF has(key) THEN (CHOOSE d \in decs : d.key = key).n ELSE old
    IN  IF Len(data) < Len(Delim) \/ SubSeq(data, 1, Len(Delim)) # Delim THEN bad
        ELSE IF ends = {} THEN bad
        ELSE IF \E d \in decs : ~d.ok \/ (d.key \in FieldKeys /\ d.n > FieldMax(d.key)) THEN bad
        ELSE IF \E d1 \in decs, d2 \in decs : d1 # d2 /\ d1.key = d2.key THEN bad
        ELSE [e |-> [e EXCEPT !.Seconds = val(KeySeconds, e.Seconds),
                              !.LowMood = val(KeyLowMood, e.LowMood),
                              !.HighMood = val(KeyHighMood, e.HighMood),
                              !.AverageMood = val(KeyAverageMood, e.AverageMood)],
              body |-> SubSeq(data, close + Len(Delim), Len(data)),
              err |-> "nil"]

----------------------------------------------------------------------------
(* New, Save, Load *)

\* time.Now()
Now(c) == [wall |-> c, mono |-> TRUE]

\* the modification time the file system records for a write at c
FileTime(c) == [wall |-> c, mono |-> FALSE]

\* the result recorded for a step that returns nothing
NoResult == [err |-> "nil", modified |-> FALSE]

NoFile == [exists |-> FALSE, data |-> <<>>, mtime |-> ZeroTime]

\* ioutil.WriteFile(path, data, perm) when k bytes reach the file: k = -1,
\* the file could not be opened and is untouched; 0 <= k < Len(data), the
\* file was truncated and the write failed after k bytes; k = Len(data), ok
WriteFile(f, data, c, k) ==
    IF k < 0 THEN [fs |-> f, err |-> "ErrWrite"]
    ELSE [fs |-> [exists |-> TRUE, data |-> SubSeq(data, 1, k), mtime |-> FileTime(c)],
          err |-> IF k = Len(data) THEN "nil" ELSE "ErrWrite"]

\* the outcomes of a write of a header fm followed by a body: not opened,
\* cut before the last byte, complete
WriteOutcomes(fm, body) ==
    {-1, Len(fm) + Len(body) - 1, Len(fm) + Len(body)}

\* the header is written without the Body
Save_DropsBody(e, f, c, k) ==
    LET w == WriteFile(f, Marshal(e), c, IF k > Len(Marshal(e)) THEN Len(Marshal(e)) ELSE k)
    IN  [fs |-> w.fs, err |-> w.err]

\* the write error is printed and lost
Save_SwallowsError(e, f, c, k) ==
    [fs |-> WriteFile(f, Marshal(e) \o e.Body, c, k).fs, err |-> "nil"]

\* Save: the header, then the Body, written to Path; the write's error is
\* returned after the dump is printed
Save(e, f, c, k) ==
    LET fm == Marshal(e)
        w == WriteFile(f, fm \o e.Body, c, k)
    IN  [fs |-> w.fs, err |-> w.err]

\* Load's own steps os.Open, ioutil.ReadAll and f.Stat fail alike: "ErrIO"
\* stands for a failure of any of the three
LoadFaults == {"none", "ErrIO"}

\* Load that compares the times and does not store the file's
Load_KeepsModTime(e, f, flt) ==
    IF ~f.exists THEN [p |-> e, modified |-> FALSE, err |-> "ErrNotExist"]
    ELSE IF flt # "none" THEN [p |-> e, modified |-> FALSE, err |-> flt]
    ELSE LET u == Unmarshal(f.data, e)
         IN  [p |-> [u.e EXCEPT !.Body = u.body],
              modified |-> (f.mtime # e.ModTime),
              err |-> u.err]

\* Load: on a failed open, read or stat nothing is stored; otherwise
\* modified compares the file's time with ModTime, ModTime takes the file's
\* time, and Unmarshal stores the metadata and returns the Body
Load(e, f, flt) ==
    IF ~f.exists THEN [p |-> e, modified |-> FALSE, err |-> "ErrNotExist"]
    ELSE IF flt # "none" THEN [p |-> e, modified |-> FALSE, err |-> flt]
    ELSE LET u == Unmarshal(f.data, [e EXCEPT !.ModTime = f.mtime])
         IN  [p |-> [u.e EXCEPT !.Body = u.body],
              modified |-> (f.mtime # e.ModTime),
              err |-> u.err]

\* the directories New is called with, and what os.Stat finds there
JournalDir == <<"j">>
Dirs == { JournalDir, <<"f">>, <<"n">> }

StatDir(dir) ==
    CASE dir = JournalDir -> [err |-> "nil", isDir |-> TRUE]
      [] dir = <<"f">> -> [err |-> "nil", isDir |-> FALSE]
      [] OTHER -> [err |-> "ErrNotExist", isDir |-> FALSE]

PathFor(dir, t) == dir \o <<Sep>> \o Format(entryFormat, t)

\* os.Stat(p.Path): flt is a failure other than the file not existing
StatFile(f, flt) ==
    IF flt # "none" THEN flt ELSE IF f.exists THEN "nil" ELSE "ErrNotExist"

\* New that writes a fresh file whether or not one is there
NewEntry_AlwaysCreates(dir, t, c, f, statFlt, loadFlt, k) ==
    LET e1 == [ZeroEntry EXCEPT !.Path = PathFor(dir, t), !.ModTime = Now(c)]
        sv == Save(e1, f, c, k)
    IN  [p |-> e1, fs |-> sv.fs, err |-> "nil", inner |-> sv.err, did |-> "Save"]

\* New after the directory checks.  The error of the second os.Stat, of Save
\* and of Load lives in the err declared by the if statement (inner); the
\* function returns the err of the first os.Stat, which is nil here.
NewEntry(dir, t, c, f, statFlt, loadFlt, k) ==
    LET e0 == [ZeroEntry EXCEPT !.Path = PathFor(dir, t)]
        st == StatFile(f, statFlt)
        e1 == [e0 EXCEPT !.ModTime = Now(c)]
        sv == Save(e1, f, c, k)
        ld == Load(e0, f, loadFlt)
    IN  IF st = "ErrNotExist"
        THEN [p |-> e1, fs |-> sv.fs, err |-> "nil", inner |-> sv.err, did |-> "Save"]
        ELSE IF st = "nil"
        THEN [p |-> ld.p, fs |-> f, err |-> "nil", inner |-> ld.err, did |-> "Load"]
        ELSE [p |-> e0, fs |-> f, err |-> "nil", inner |-> st, did |-> "Stat"]

\* who wrote the file's present content, after a Save that got k bytes out
Writer(before, k, err) ==
    IF k < 0 THEN before ELSE IF err = "nil" THEN "save" ELSE "partial"

\* New(dir)
New ==
    \E dir \in Dirs :
        LET sd == StatDir(dir)
        IN  /\ op' = "New"
            /\ preMod' = p.ModTime
            /\ UNCHANGED <<today, clock>>
            /\ IF sd.err # "nil" \/ ~sd.isDir
               THEN /\ p' = ZeroEntry
                    /\ live' = FALSE
                    /\ res' = [err |-> IF sd.err # "nil" THEN sd.err ELSE "ErrNotDir",
                               modified |-> FALSE]
                    /\ fault' = "none"
                    /\ UNCHANGED <<fs, saved, wr>>
               ELSE \E statFlt \in {"none", "ErrPerm"} :
                    \E loadFlt \in IF StatFile(fs, statFlt) = "nil"
                                   THEN LoadFaults ELSE {"none"},
                       k \in IF StatFile(fs, statFlt) = "ErrNotExist"
                             THEN WriteOutcomes(Marshal(ZeroEntry), <<>>)
                             ELSE {Len(Marshal(ZeroEntry))} :
                      LET n == NewEntry(dir, today, clock, fs, statFlt, loadFlt, k)
                      IN  /\ p' = n.p
                          /\ live' = TRUE
                          /\ fs' = n.fs
                          /\ res' = [err |-> n.err, modified |-> FALSE]
                          /\ fault' = IF n.inner = "nil" THEN "none" ELSE n.inner
                          /\ wr' = IF n.did = "Save" THEN Writer(wr, k, n.inner) ELSE wr
                          /\ saved' = IF n.did # "Save" \/ k < 0 THEN saved
                                       ELSE IF n.inner = "nil" THEN n.p ELSE ZeroEntry
    /\ UNCHANGED <<promptVars, pureVars>>

\* p.Save()
SaveOp ==
    /\ live
    /\ \E k \in WriteOutcomes(Marshal(p), p.Body) :
         LET s == Save(p, fs, clock, k)
         IN  /\ fs' = s.fs
             /\ res' = [err |-> s.err, modified |-> FALSE]
             /\ fault' = IF k = Len(Marshal(p) \o p.Body) THEN "none" ELSE "ErrWrite"
             /\ wr' = Writer(wr, k, s.err)
             /\ saved' = IF k < 0 THEN saved
                          ELSE IF k = Len(Marshal(p) \o p.Body) THEN p ELSE ZeroEntry
    /\ op' = "Save"
    /\ preMod' = p.ModTime
    /\ UNCHANGED <<p, today, clock, live, promptVars, pureVars>>

\* p.Load()
LoadOp ==
    /\ live
    /\ \E flt \in LoadFaults :
         LET l == Load(p, fs, flt)
         IN  /\ p' = l.p
             /\ res' = [err |-> l.err, modified |-> l.modified]
             /\ fault' = IF l.err = "nil" THEN "none" ELSE l.err
    /\ op' = "Load"
    /\ preMod' = p.ModTime
    /\ UNCHANGED <<today, clock, fs, live, saved, wr, promptVars, pureVars>>

\* values the caller writes to the fields of an Entry
EditSet ==
    { [Seconds |-> 65535, LowMood |-> 1, HighMood |-> 5, AverageMood |-> 3,
       Body |-> <<"a", NL>> \o Delim \o <<"b">>],
      [Seconds |-> 7, LowMood |-> 255, HighMood |-> 0, AverageMood |-> 2,
       Body |-> Delim],
      [Seconds |-> 0, LowMood |-> 0, HighMood |-> 0, AverageMood |-> 0,
       Body |-> <<NL, " ", "a">>] }

\* direct writes to the exported fields of the Entry
Edit ==
    /\ live
    /\ \E v \in EditSet :
         p' = [p EXCEPT !.Seconds = v.Seconds, !.LowMood = v.LowMood,
                        !.HighMood = v.HighMood, !.AverageMood = v.AverageMood,
                        !.Body = v.Body]
    /\ op' = "Edit"
    /\ preMod' = p.ModTime
    /\ p' # p
    /\ res' = NoResult
    /\ fault' = "none"
    /\ UNCHANGED <<today, clock, fs, live, saved, wr, promptVars, pureVars>>

\* contents another program leaves in the file
OtherContents ==
    { Marshal([ZeroEntry EXCEPT !.Seconds = 300, !.LowMood = 1, !.HighMood = 5,
                                !.AverageMood = 4]) \o <<"h", "i", NL>>,
      <<"h", "i", NL>> }

\* another program writes or removes the file
OtherWrite ==
    /\ \/ \E d \in OtherContents :
            fs' = [exists |-> TRUE, data |-> d, mtime |-> FileTime(clock)]
       \/ fs.exists /\ fs' = NoFile
    /\ wr' = "other"
    /\ saved' = ZeroEntry
    /\ op' = "Write"
    /\ preMod' = p.ModTime
    /\ res' = NoResult
    /\ fault' = "none"
    /\ UNCHANGED <<p, today, clock, live, promptVars, pureVars>>

\* time passes
Tick ==
    /\ clock < MaxClock
    /\ clock' = clock + 1
    /\ UNCHANGED <<p, today, fs, live, op, res, fault, preMod, saved, wr, promptVars, pureVars>>

Today == [y |-> 2023, m |-> 7, d |-> 4]

FileStart ==
    /\ clock = 1
    /\ fs = NoFile
    /\ live = FALSE
    /\ op = "none"
    /\ res = NoResult
    /\ fault = "none"
    /\ preMod = ZeroTime
    /\ saved = ZeroEntry
    /\ wr = "none"

PureIdle ==
    /\ dateRes = NoDate
    /\ name = <<>>
    /\ isEntry = "none"
    /\ words = NoWords

\* no Entry yet, no file, nothing called
FileIdle ==
    /\ today = Today
    /\ FileStart

PromptIdle ==
    /\ input = <<>>
    /\ inErr = "EOF"
    /\ rdKind = "bulk"
    /\ buf = <<>>
    /\ out = <<>>
    /\ pc = "idle"
    /\ pr = prompts(ZeroEntry)
    /\ todo = {}
    /\ cur = ""
    /\ ret = "none"
    /\ calls = 0
    /\ nreads = 0
    /\ p0 = ZeroEntry
    /\ in0 = <<>>
    /\ out0 = 0
    /\ order = <<>>
    /\ lastRd = "none"
    /\ prevRet = "none"

InitFile ==
    /\ p = ZeroEntry
    /\ FileIdle
    /\ PromptIdle
    /\ PureIdle

NextFile == New \/ SaveOp \/ LoadOp \/ Edit \/ OtherWrite \/ Tick

SpecFile == InitFile /\ [][NextFile]_vars

----------------------------------------------------------------------------
(* Date() *)

UpperCase ==
    <<"A", "B", "C", "D", "E", "F", "G", "H", "I", "J", "K", "L", "M", "N", "O", "P",
      "Q", "R", "S", "T", "U", "V", "W", "X", "Y", "Z">>
LowerCase ==
    <<"a", "b", "c", "d", "e", "f", "g", "h", "i", "j", "k", "l", "m", "n", "o", "p",
      "q", "r", "s", "t", "u", "v", "w", "x", "y", "z">>

\* ASCII lower case, as time's lookup compares month names
Lower(c) ==
    IF \E i \in 1..26 : UpperCase[i] = c
    THEN LowerCase[CHOOSE i \in 1..26 : UpperCase[i] = c]
    ELSE c

LowerSeq(s) == [i \in 1..Len(s) |-> Lower(s[i])]

\* time's lookup(shortMonthNames, value): the month whose name value starts
\* with, 0 when there is none
LookupMonth(value) ==
    IF Len(value) >= 3
       /\ \E m \in 1..12 : LowerSeq(ShortMonthNames[m]) = LowerSeq(SubSeq(value, 1, 3))
    THEN CHOOSE m \in 1..12 : LowerSeq(ShortMonthNames[m]) = LowerSeq(SubSeq(value, 1, 3))
    ELSE 0

\* the number of leading digits of value that time's getnum takes: two when
\* both are digits, one when only the first is and the width is not fixed,
\* 0 for an error
GetNum(value, fixed) ==
    IF Len(value) < 1 \/ ~IsDigit(value[1]) THEN 0
    ELSE IF Len(value) < 2 \/ ~IsDigit(value[2]) THEN (IF fixed THEN 0 ELSE 1)
    ELSE 2

BadDate == [t |-> [y |-> 0, m |-> 0, d |-> 0], err |-> "ErrParse"]

\* one chunk of the layout read off the front of value: the date so far and
\* the rest of value, or an error
ParseChunk(c, t, value) ==
    LET bad == [t |-> t, rest |-> value, err |-> "ErrParse"]
        n == GetNum(value, c.std # "2")
        num == ParseDec(SubSeq(value, 1, n))
        rest == SubSeq(value, n + 1, Len(value))
    IN  CASE c.std = "2006" ->
               IF Len(value) >= 4 /\ AllDigits(SubSeq(value, 1, 4))
               THEN [t |-> [t EXCEPT !.y = ParseDec(SubSeq(value, 1, 4))],
                     rest |-> SubSeq(value, 5, Len(value)), err |-> "nil"]
               ELSE bad
          [] c.std = "01" ->
               IF n = 0 \/ num < 1 \/ num > 12 THEN bad
               ELSE [t |-> [t EXCEPT !.m = num], rest |-> rest, err |-> "nil"]
          [] c.std \in {"02", "2"} ->
               IF n = 0 THEN bad
               ELSE [t |-> [t EXCEPT !.d = num], rest |-> rest, err |-> "nil"]
          [] c.std = "Jan" ->
               IF LookupMonth(value) = 0 THEN bad
               ELSE [t |-> [t EXCEPT !.m = LookupMonth(value)],
                     rest |-> SubSeq(value, 4, Len(value)), err |-> "nil"]
          [] c.std = "lit" ->
               IF Len(value) >= Len(c.lit) /\ SubSeq(value, 1, Len(c.lit)) = c.lit
               THEN [t |-> t, rest |-> SubSeq(value, Len(c.lit) + 1, Len(value)),
                     err |-> "nil"]
               ELSE bad

RECURSIVE ParseFrom(_, _, _, _)
ParseFrom(layout, i, t, value) ==
    IF i > Len(layout)
    THEN (IF value # <<>> THEN BadDate
          ELSE IF t.d < 1 \/ t.d > DaysIn(t.m, t.y) THEN BadDate
          ELSE [t |-> t, err |-> "nil"])
    ELSE LET r == ParseChunk(layout[i], t, value)
         IN  IF r.err # "nil" THEN BadDate ELSE ParseFrom(layout, i + 1, r.t, r.rest)

\* time.Parse(layout, value): year 0, January 1 until the layout sets them
Parse(layout, value) == ParseFrom(layout, 1, [y |-> 0, m |-> 1, d |-> 1], value)

\* generation uses another layout than parsing: the day is padded
entryFormat_PaddedDay ==
    << [std |-> "2006", lit |-> <<>>], [std |-> "lit", lit |-> <<"-">>],
       [std |-> "01", lit |-> <<>>], [std |-> "lit", lit |-> <<"-">>],
       [std |-> "02", lit |-> <<>>], [std |-> "lit", lit |-> LitJournal],
       [std |-> "Jan", lit |-> <<>>], [std |-> "lit", lit |-> <<"-">>],
       [std |-> "02", lit |-> <<>>], [std |-> "lit", lit |-> LitExt] >>

\* the layout Date() parses with
DateLayout == entryFormat

\* Date(): time.Parse(entryFormat, filepath.Base(p.Path))
Date(e) == Parse(DateLayout, Base(e.Path))

\* p.Date()
DateOp ==
    /\ live
    /\ dateRes' = Date(p)
    /\ UNCHANGED <<p, promptVars, fileVars, name, isEntry, words>>

\* the days New is called on
Years == {0, 1, 2023, 2024, 9999, 10000}
Dates == { [y |-> y, m |-> m, d |-> d] : y \in Years, m \in 1..12, d \in 1..31 }

InitDate ==
    /\ p = ZeroEntry
    /\ today \in { t \in Dates : t.d <= DaysIn(t.m, t.y) }
    /\ FileStart
    /\ PromptIdle
    /\ PureIdle

\* the directories an entry path is built in
PathDirs == { JournalDir, <<"a", Sep, "b">>, <<".">> }

\* p = &Entry{Path: dir + separator + time.Now().Format(entryFormat)}
MakeEntry ==
    /\ \E dir \in PathDirs : p' = [ZeroEntry EXCEPT !.Path = PathFor(dir, today)]
    /\ live' = TRUE
    /\ op' = "Make"
    /\ UNCHANGED <<today, clock, fs, res, fault, preMod, saved, wr, promptVars, pureVars>>

NextDate == MakeEntry \/ DateOp

SpecDate == InitDate /\ [][NextDate]_vars

----------------------------------------------------------------------------
(* IsEntry *)

\* a regular expression without alternation: a sequence of atoms, each a
\* character class repeated lo to hi times.  Classes: "d" is \d, "D" is \D,
\* "any" is . (anything but a line break), "lit" is the character ch.
Atom(cls, ch, lo, hi) == [cls |-> cls, ch |-> ch, lo |-> lo, hi |-> hi]

Lits(s) == [i \in 1..Len(s) |-> Atom("lit", s[i], 1, 1)]

ClassOK(a, c) ==
    CASE a.cls = "d" -> IsDigit(c)
      [] a.cls = "D" -> ~IsDigit(c)
      [] a.cls = "S" -> ~IsSpace(c)
      [] a.cls = "any" -> c # NL
      [] a.cls = "lit" -> c = a.ch

\* whether atoms k.. of re match s from position i on; toEnd asks the match
\* to end where s ends
RECURSIVE MatchAt(_, _, _, _, _)
MatchAt(re, k, s, i, toEnd) ==
    IF k > Len(re) THEN (~toEnd \/ i = Len(s) + 1)
    ELSE \E n \in re[k].lo..re[k].hi :
            /\ i + n - 1 <= Len(s)
            /\ \A j \in i..(i + n - 1) : ClassOK(re[k], s[j])
            /\ MatchAt(re, k + 1, s, i + n, toEnd)

\* regexp.MatchString of an expression with no anchors: a match anywhere
MatchString(re, s) == \E i \in 1..(Len(s) + 1) : MatchAt(re, 1, s, i, FALSE)

\* entryRegex = `\d{4}-\d{2}-\d{2}-Journal-Entry-for-\D{3}-\d{1,2}` + ".md"
entryRegex ==
    <<Atom("d", "", 4, 4), Atom("lit", "-", 1, 1), Atom("d", "", 2, 2),
      Atom("lit", "-", 1, 1), Atom("d", "", 2, 2)>>
    \o Lits(LitJournal)
    \o <<Atom("D", "", 3, 3), Atom("lit", "-", 1, 1), Atom("d", "", 1, 2),
         Atom("any", "", 1, 1), Atom("lit", "m", 1, 1), Atom("lit", "d", 1, 1)>>

\* IsEntry(path)
IsEntry(path) == MatchString(entryRegex, path)

IsEntryOp ==
    /\ isEntry = "none"
    /\ isEntry' = IF IsEntry(name) THEN "true" ELSE "false"
    /\ UNCHANGED <<p, promptVars, fileVars, dateRes, name, words>>

\* the paths IsEntry is called with: a well-formed name with each part
\* varied
NamePre == { <<>>, <<"x">>, <<"j", Sep>> }
NameYear == { <<"2", "0", "2", "3">>, <<"2", "0", "2">> }
NameSep == { <<"-">>, <<"_">> }
NameLit == { LitJournal, <<"-", "J", "o", "u", "r", "n", "a", "l", "-", "f", "o", "r", "-">> }
NameMon == { <<"J", "u", "l">>, <<"J", "u", "l", "y">>, <<"J", " ", "l">>,
             <<"J", "7", "l">>, <<"J", "u">> }
NameDay == { <<"4">>, <<"1", "4">>, <<"1", "4", "4">>, <<>> }
NameDot == { <<".">>, <<"x">>, <<NL>> }
NameExt == { <<"m", "d">>, <<"m">> }
NameSuf == { <<>>, <<".", "b", "a", "k">> }

Names ==
    { pre \o y \o s1 \o <<"0", "7", "-", "0", "4">> \o lit \o mon \o <<"-">> \o day
          \o dot \o ext \o suf :
        pre \in NamePre, y \in NameYear, s1 \in NameSep, lit \in NameLit, mon \in NameMon,
        day \in NameDay, dot \in NameDot, ext \in NameExt, suf \in NameSuf }

InitName ==
    /\ p = ZeroEntry
    /\ today = Today
    /\ FileStart
    /\ PromptIdle
    /\ dateRes = NoDate
    /\ name \in Names
    /\ isEntry = "none"
    /\ words = NoWords

NextName == IsEntryOp

SpecName == InitName /\ [][NextName]_vars

----------------------------------------------------------------------------
(* Words *)

MaxBody == 4

\* where the leftmost-first match of atoms k.. of re that starts at i ends
\* (the position after its last character), 0 when there is none: each
\* atom is greedy, it takes the most repetitions the rest can follow
RECURSIVE GreedyEnd(_, _, _, _)
GreedyEnd(re, k, s, i) ==
    IF k > Len(re) THEN i
    ELSE LET ns == { n \in re[k].lo..re[k].hi :
                       /\ i + n - 1 <= Len(s)
                       /\ \A j \in i..(i + n - 1) : ClassOK(re[k], s[j])
                       /\ MatchAt(re, k + 1, s, i + n, FALSE) }
         IN  IF ns = {} THEN 0
             ELSE GreedyEnd(re, k + 1, s, i + (CHOOSE n \in ns : \A m \in ns : m <= n))

\* regexp.FindAll(s, -1) from position i on: the successive
\* non-overlapping matches, each the leftmost one after the match before it
RECURSIVE FindAllFrom(_, _, _)
FindAllFrom(re, s, i) ==
    LET starts == { j \in i..Len(s) : GreedyEnd(re, 1, s, j) # 0 }
    IN  IF starts = {} THEN <<>>
        ELSE LET j == CHOOSE x \in starts : \A y \in starts : x <= y
                 e == GreedyEnd(re, 1, s, j)
             IN  <<SubSeq(s, j, e - 1)>> \o FindAllFrom(re, s, e)

FindAll(re, s) == FindAllFrom(re, s, 1)

\* the same expression without its +
wordRegex_OneChar == <<Atom("S", "", 1, 1)>>

\* wordRegex = `\S+`; the repetition has no upper limit, MaxBody + 1 is
\* beyond every body
wordRegex == <<Atom("S", "", 1, MaxBody + 1)>>

\* regexp.MustCompile(wordRegex).FindAll(p.Body, -1)
Words(e) == FindAll(wordRegex, e.Body)

WordsOp ==
    /\ ~words.done
    /\ words' = [done |-> TRUE, list |-> Words(p)]
    /\ p0' = p
    /\ UNCHANGED <<p, input, inErr, rdKind, buf, out, pc, pr, todo, cur, ret, calls,
                   nreads, in0, out0, order, lastRd, prevRet, fileVars,
                   dateRes, name, isEntry>>

\* the characters of the bodies Words is called on
BodyChars == { "a", "b", " ", NL, "\t" }

Bodies == UNION { [1..n -> BodyChars] : n \in 0..MaxBody }

\* the other fields carry values of their own, so that a change shows
InitWords ==
    /\ \E b \in Bodies :
         p = [ZeroEntry EXCEPT !.Body = b, !.Seconds = 7, !.LowMood = 1,
                               !.Path = PathFor(JournalDir, Today),
                               !.ModTime = FileTime(1)]
    /\ FileIdle
    /\ PromptIdle
    /\ PureIdle

NextWords == WordsOp

SpecWords == InitWords /\ [][NextWords]_vars

----------------------------------------------------------------------------
(* Inputs of SpecPrompt *)

\* values a mood field holds when the call starts
MoodStart == {0, 2}

\* lines of the input stream, without their line break
LineSet ==
    { <<"3">>, <<"4">>, <<"5">>, <<"x">>, <<" ", "2", " ">>, <<"1", "2">> }

\* what follows the last complete line: nothing, or a rating with no line break
TailSet == { <<>>, <<"5">> }

\* the io.Reader: the error it ends with and how it delivers its bytes
ReaderSet == { <<"EOF", "line">>, <<"ErrIO", "bulk">> }

Terminate(lines) == Concat([i \in 1..Len(lines) |-> Append(lines[i], NL)])

Streams == { Terminate(ls) \o t : ls \in SeqsUpTo(LineSet, MaxLines), t \in TailSet }

InitPrompt ==
    /\ \E h \in MoodStart, l \in MoodStart, a \in MoodStart :
         p = [ZeroEntry EXCEPT !.HighMood = h, !.LowMood = l, !.AverageMood = a]
    /\ input \in Streams
    /\ \E rk \in ReaderSet : inErr = rk[1] /\ rdKind = rk[2]
    /\ buf = <<>>
    /\ out = <<>>
    /\ pc = "idle"
    /\ pr = prompts(ZeroEntry)
    /\ todo = {}
    /\ cur = ""
    /\ ret = "none"
    /\ calls = 0
    /\ nreads = 0
    /\ p0 = p
    /\ in0 = input
    /\ out0 = 0
    /\ order = <<>>
    /\ lastRd = "none"
    /\ prevRet = "none"
    /\ FileIdle
    /\ PureIdle

NextPrompt == Call \/ Range \/ Ask

SpecPrompt == InitPrompt /\ [][NextPrompt]_vars

----------------------------------------------------------------------------
(* Inputs of SpecLine: the prompter on lines of every kind, on an Entry
   whose other fields hold values *)

MaxCaseLines == 2

\* lines without their line break: ratings, digits outside 1..5, two digits,
\* the empty line, a rating inside whitespace, two ratings on a line
LineCases ==
    { <<"0">>, <<"6">>, <<"1", "2">>, <<>>, <<" ", "3", " ">>, <<"3", " ", "4">>,
      <<"5">>, <<"1", "\r">> }

CaseStreams ==
    { Terminate(ls) \o t : ls \in SeqsUpTo(LineCases, MaxCaseLines), t \in TailSet }

InitLine ==
    /\ \E h \in MoodStart, l \in MoodStart, a \in MoodStart :
         p = [ZeroEntry EXCEPT !.HighMood = h, !.LowMood = l, !.AverageMood = a,
                               !.Seconds = 7, !.Body = <<"a", NL>>,
                               !.Path = PathFor(JournalDir, Today),
                               !.ModTime = FileTime(1)]
    /\ input \in CaseStreams
    /\ \E rk \in ReaderSet : inErr = rk[1] /\ rdKind = rk[2]
    /\ buf = <<>>
    /\ out = <<>>
    /\ pc = "idle"
    /\ pr = prompts(ZeroEntry)
    /\ todo = {}
    /\ cur = ""
    /\ ret = "none"
    /\ calls = 0
    /\ nreads = 0
    /\ p0 = p
    /\ in0 = input
    /\ out0 = 0
    /\ order = <<>>
    /\ lastRd = "none"
    /\ prevRet = "none"
    /\ FileIdle
    /\ PureIdle

SpecLine == InitLine /\ [][NextPrompt]_vars

\* the call runs on one goroutine with nothing to wait for but the reader:
\* a step that can be taken is taken
SpecLineFair == SpecLine /\ WF_vars(Range) /\ WF_vars(Ask)

----------------------------------------------------------------------------
(* Properties of PromptForMetadata, checked under SpecPrompt *)

\* the mood field a prompt stands for
Mood(e, k) ==
    CASE k = HighPrompt -> e.HighMood
      [] k = LowPrompt -> e.LowMood
      [] k = AvgPrompt -> e.AverageMood

Prompts == {HighPrompt, LowPrompt, AvgPrompt}

\* what the current call wrote to w
Written == SubSeq(out, out0 + 1, Len(out))

\* the bytes the current call took from its bufio.Reader
Consumed == SubSeq(in0, 1, Len(in0) - Len(buf) - Len(input))

\* the complete lines of s, without their line breaks
RECURSIVE LinesOf(_)
LinesOf(s) ==
    IF IndexOf(s, NL) = 0 THEN <<>>
    ELSE <<SubSeq(s, 1, IndexOf(s, NL) - 1)>> \o LinesOf(SubSeq(s, IndexOf(s, NL) + 1, Len(s)))

IsValidLine(l) == Len(TrimSpace(l)) = 1 /\ TrimSpace(l)[1] \in {"1", "2", "3", "4", "5"}

IsInvalidLine(l) == ~IsValidLine(l)

\* the ratings of the valid lines consumed so far, in order
ValidVals ==
    LET v == SelectSeq(LinesOf(Consumed), IsValidLine)
    IN  [i \in 1..Len(v) |-> DigitVal(TrimSpace(v[i])[1])]

InvalidCount == Len(SelectSeq(LinesOf(Consumed), IsInvalidLine))

IsUnrecognized(w) == w = Unrecognized

IsPrompt(w) == w \in Prompts

AllZero(e) == e.HighMood = 0 /\ e.LowMood = 0 /\ e.AverageMood = 0

AllSet(e) == e.HighMood # 0 /\ e.LowMood # 0 /\ e.AverageMood # 0

\* C1 (as claimed): a call on an Entry with all three mood fields 0 whose
\* input starts with three valid lines a, b, c ends with HighMood = a,
\* LowMood = b, AverageMood = c and exactly the prompts High, Low, Average
\* written, in that order.
C1_FixedOrder ==
    (/\ pc = "done"
     /\ AllZero(p0)
     /\ Len(in0) >= 6
     /\ \A i \in {1, 3, 5} : in0[i] \in ratingChars /\ in0[i + 1] = NL)
    => /\ ret = "nil"
       /\ p.HighMood = DigitVal(in0[1])
       /\ p.LowMood = DigitVal(in0[3])
       /\ p.AverageMood = DigitVal(in0[5])
       /\ Written = <<HighPrompt, LowPrompt, AvgPrompt>>

\* C2: a mood field that is nonzero when the call starts holds the same
\* value at every point of the call and at its return, with or without
\* error, and its prompt is never written.
C2_NonzeroKept ==
    pc # "idle" =>
        \A k \in Prompts :
            Mood(p0, k) # 0 =>
                /\ Mood(p, k) = Mood(p0, k)
                /\ \A i \in 1..Len(Written) : Written[i] # k

C2_Witness ==
    /\ pc = "done"
    /\ p0.HighMood # 0
    /\ p0.LowMood = 0
    /\ p.LowMood # 0
    /\ p0.AverageMood = 0
    /\ ret # "nil"

\* C3: a call on an Entry whose three mood fields are all nonzero reads
\* nothing, writes nothing, changes no field and returns nil, whatever the
\* stream holds; so does a call that follows a call that returned nil.
C3_AllSetNoop ==
    (pc # "idle" /\ (AllSet(p0) \/ (calls >= 2 /\ prevRet = "nil")))
    => /\ pc # "ask"
       /\ nreads = 0
       /\ input = in0
       /\ buf = <<>>
       /\ Written = <<>>
       /\ p = p0
       /\ pc = "done" => ret = "nil"

C3_Witness ==
    /\ pc = "done"
    /\ calls = 2
    /\ prevRet = "nil"
    /\ out0 = 3
    /\ input = <<>>
    /\ inErr = "ErrIO"

\* C4: every "Unrecognized input" message directly follows a prompt and,
\* once the call has written anything after it, is directly followed by the
\* same prompt; while nothing follows it the call is still asking for that
\* field.  The messages written are as many as the invalid lines consumed,
\* one prompt is written per read, and the fields that differ from their
\* value at the start are as many as the valid lines consumed, so a rejected
\* line changes no field.
C4_RejectReprompts ==
    pc # "idle" =>
        /\ \A i \in 1..Len(Written) :
             Written[i] = Unrecognized =>
                /\ i > 1
                /\ Written[i - 1] \in Prompts
                /\ IF i < Len(Written)
                   THEN Written[i + 1] = Written[i - 1]
                   ELSE pc = "ask" /\ cur = Written[i - 1]
        /\ Len(SelectSeq(Written, IsUnrecognized)) = InvalidCount
        /\ Len(SelectSeq(Written, IsPrompt)) = nreads
        /\ Cardinality({k \in Prompts : Mood(p, k) # Mood(p0, k)}) = Len(ValidVals)

C4_Witness ==
    /\ pc = "done"
    /\ in0 = <<"x", NL, "5", NL>>
    /\ p0.HighMood # 0
    /\ p0.LowMood = 0
    /\ p0.AverageMood # 0
    /\ p.LowMood = 5
    /\ Written = <<LowPrompt, Unrecognized, LowPrompt>>

\* C5: once a read of the input stream has failed, the call has returned
\* the stream's error and has written nothing after the prompt of the field
\* it was asking for; the fields asked before it hold the ratings of the
\* valid lines, in the order asked, and the field being asked and every
\* field not asked yet hold their value from the start of the call.
C5_ReadErrorAborts ==
    (pc # "idle" /\ lastRd \notin {"none", "nil"})
    => /\ pc = "done"
       /\ ret = inErr
       /\ ret = lastRd
       /\ Written # <<>>
       /\ Written[Len(Written)] = cur
       /\ Len(order) = Len(ValidVals) + 1
       /\ \A i \in 1..(Len(order) - 1) : Mood(p, order[i]) = ValidVals[i]
       /\ Mood(p, cur) = Mood(p0, cur)
       /\ \A k \in todo : Mood(p, k) = Mood(p0, k)

C5_Witness ==
    /\ pc = "done"
    /\ ret = "ErrIO"
    /\ AllZero(p0)
    /\ Len(order) = 2
    /\ Mood(p, order[1]) = 4
    /\ Mood(p, order[2]) = 0

----------------------------------------------------------------------------
(* Properties of Save, Load and New, checked under SpecFile *)

\* C6: a Load that reads what a complete Save of this Entry wrote, with no
\* other write to the file since, succeeds unless one of its I/O steps
\* fails, and then Body, Seconds, LowMood, HighMood, AverageMood and Path
\* are what they were at that Save, whatever the caller wrote to the fields
\* in between.
C6_SaveLoadRestores ==
    (op = "Load" /\ wr = "save" /\ fault # "ErrIO")
    => /\ res.err = "nil"
       /\ p.Body = saved.Body
       /\ p.Seconds = saved.Seconds
       /\ p.LowMood = saved.LowMood
       /\ p.HighMood = saved.HighMood
       /\ p.AverageMood = saved.AverageMood
       /\ p.Path = saved.Path

C6_Witness ==
    /\ op = "Load"
    /\ wr = "save"
    /\ res.err = "nil"
    /\ p.Seconds = 65535
    /\ p.LowMood = 1
    /\ p.Body = <<"a", NL>> \o Delim \o <<"b">>
    /\ fs.data = Marshal(p) \o p.Body

\* C7 (as claimed): when the Save, the Load or the existence check that New
\* performs fails, New returns a non-nil error.
C7_NewReportsFailure ==
    (op = "New" /\ live /\ fault # "none") => res.err # "nil"

\* C8: a Save whose write fails returns the write error, and a Save that
\* returns nil has left the header followed by the Body in the file.
C8_SaveReportsWriteError ==
    op = "Save" =>
        /\ fault = "ErrWrite" => res.err = "ErrWrite"
        /\ res.err = "nil" => (fs.exists /\ fs.data = Marshal(p) \o p.Body)
        /\ res.err \in {"nil", "ErrWrite"}

C8_Witness ==
    /\ op = "Save"
    /\ res.err = "ErrWrite"
    /\ fs.exists
    /\ wr = "partial"
    /\ p.Body # <<>>
    /\ fs.data # Marshal(p) \o p.Body

----------------------------------------------------------------------------
(* Properties of Date(), checked under SpecDate *)

\* C9: for a day of a year from 0 to 9999, Date() of the Entry whose Path
\* is directory + separator + Format(entryFormat, day) returns that day and
\* no error.
C9_FilenameRoundTrip ==
    (dateRes.err # "none" /\ today.y <= 9999)
    => /\ dateRes.err = "nil"
       /\ dateRes.t = today

C9_Witness ==
    /\ dateRes.err = "nil"
    /\ dateRes.t = [y |-> 2024, m |-> 2, d |-> 29]
    /\ Base(p.Path) # p.Path
    /\ Len(p.Path) > Len(Format(entryFormat, today)) + 2

----------------------------------------------------------------------------
(* Properties of IsEntry, checked under SpecName *)

\* the names of the claimed form: four digits, dash, two digits, dash, two
\* digits, -Journal-Entry-for-, three non-whitespace characters, dash, one
\* or two digits, .md, and nothing before or after
ClaimedForm ==
    <<Atom("d", "", 4, 4), Atom("lit", "-", 1, 1), Atom("d", "", 2, 2),
      Atom("lit", "-", 1, 1), Atom("d", "", 2, 2)>>
    \o Lits(LitJournal)
    \o <<Atom("S", "", 3, 3), Atom("lit", "-", 1, 1), Atom("d", "", 1, 2)>>
    \o Lits(LitExt)

HasClaimedForm(s) == MatchAt(ClaimedForm, 1, s, 1, TRUE)

\* C10 (as claimed): IsEntry returns true for exactly the names of the
\* claimed form.
C10_ExactlyTheForm ==
    isEntry # "none" => (isEntry = "true" <=> HasClaimedForm(name))

----------------------------------------------------------------------------
(* Properties of Words, checked under SpecWords *)

IsWordChar(c) == c \notin {" ", "\t", "\n", "\r", "\f"}

\* the positions of b where a run of non-whitespace characters starts
RunStarts(b) ==
    { i \in 1..Len(b) : IsWordChar(b[i]) /\ (i = 1 \/ ~IsWordChar(b[i - 1])) }

\* the k-th of them, counted from the left
NthStart(b, k) ==
    CHOOSE i \in RunStarts(b) : Cardinality({ j \in RunStarts(b) : j < i }) = k - 1

\* the position where the run that starts at i ends
RunEnd(b, i) ==
    CHOOSE e \in i..Len(b) :
        /\ \A j \in i..e : IsWordChar(b[j])
        /\ (e = Len(b) \/ ~IsWordChar(b[e + 1]))

\* C11: Words returns, in order of occurrence, exactly the maximal runs of
\* non-whitespace characters of Body: no element is empty or holds
\* whitespace, the elements concatenated are Body with its whitespace
\* removed, a Body that is empty or all whitespace yields no element, and
\* the Entry is left as it was.
C11_WordsAreRuns ==
    words.done =>
        LET b == p.Body
            w == words.list
        IN  /\ Len(w) = Cardinality(RunStarts(b))
            /\ \A k \in 1..Len(w) :
                   /\ w[k] = SubSeq(b, NthStart(b, k), RunEnd(b, NthStart(b, k)))
                   /\ w[k] # <<>>
                   /\ \A j \in 1..Len(w[k]) : IsWordChar(w[k][j])
            /\ Concat(w) = SelectSeq(b, IsWordChar)
            /\ ((\A i \in 1..Len(b) : ~IsWordChar(b[i])) => w = <<>>)
            /\ p = p0

\* a body of two words with a line break between them
C11_Witness ==
    /\ words.done
    /\ p.Body = <<"a", "b", NL, "b">>
    /\ words.list = << <<"a", "b">>, <<"b">> >>
    /\ p.Seconds = 7

----------------------------------------------------------------------------
(* Properties of New and Load, checked under SpecFile *)

\* a step of New that returned an Entry: of the steps that leave the clock
\* alone only New records itself as the last operation
NewStep == op' = "New" /\ clock' = clock /\ live'

SameContent(e, f) ==
    /\ e.Seconds = f.Seconds
    /\ e.LowMood = f.LowMood
    /\ e.HighMood = f.HighMood
    /\ e.AverageMood = f.AverageMood
    /\ e.Body = f.Body

\* C12: New is find-or-create.  With no file at Path it returns an Entry
\* with ModTime the current time, Seconds and the moods 0 and an empty Body,
\* and saves it, so that the file exists afterwards when the write went
\* through.  With a file at Path it loads and writes nothing: the file is
\* as before and, when the Load went through, the Entry carries the file's
\* metadata and Body; after a Save wrote the file that is the content of that
\* Save, so a second New returns what was written through the first.
C12_FindOrCreate ==
    [][NewStep =>
        IF ~fs.exists
        THEN (fault' # "ErrPerm") =>
               /\ p' = [ZeroEntry EXCEPT !.Path = PathFor(JournalDir, today),
                                         !.ModTime = Now(clock)]
               /\ (fault' = "none") =>
                      /\ fs'.exists
                      /\ fs'.data = Marshal(ZeroEntry)
                      /\ wr' = "save"
        ELSE /\ fs' = fs
             /\ (fault' = "none") =>
                    /\ p'.Path = PathFor(JournalDir, today)
                    /\ Marshal(p') \o p'.Body = fs.data
                    /\ (wr = "save" => SameContent(p', saved))
    ]_vars

\* a New that found the file an earlier Entry saved, edited fields and Body
\* included
C12_Witness ==
    /\ op = "New"
    /\ live
    /\ fault = "none"
    /\ wr = "save"
    /\ p.ModTime = fs.mtime
    /\ p.Seconds = 65535
    /\ p.Body = <<"a", NL>> \o Delim \o <<"b">>

\* a step of Load that returned no error
LoadStep == op' = "Load" /\ clock' = clock /\ res'.err = "nil"

\* C13: a successful Load returns modified = (the file's modification time
\* it observed differs from the ModTime the Entry held before the call) and
\* leaves the observed time in ModTime; a successful Load that directly
\* follows a successful Load returns modified = false.
C13_ModifiedComparesTimes ==
    [][LoadStep =>
        /\ res'.modified = (fs.mtime # p.ModTime)
        /\ p'.ModTime = fs.mtime
        /\ (op = "Load" /\ res.err = "nil") => ~res'.modified
    ]_vars

\* the second of two reads of a file another program wrote: the time the
\* first stored is the one the second compares with
C13_Witness ==
    /\ op = "Load"
    /\ res.err = "nil"
    /\ ~res.modified
    /\ preMod = fs.mtime
    /\ wr = "other"
    /\ fs.mtime = FileTime(2)

\* C14 (as claimed): Load returns modified = true only if something other
\* than the Entry's own Save wrote the file since the Entry last loaded or
\* saved it: a successful Load of a file whose present content a Save wrote,
\* the Save of New included, returns modified = false.
C14_ModifiedOnlyExternal ==
    (op = "Load" /\ res.err = "nil" /\ wr = "save") => ~res.modified

----------------------------------------------------------------------------
(* Properties of PromptForMetadata, checked under SpecLine and SpecLineFair *)

\* a line that is one digit from 1 to 5 with nothing but whitespace around it
IsRatingLine(l) ==
    \E i \in 1..Len(l) :
        /\ l[i] \in {"1", "2", "3", "4", "5"}
        /\ \A j \in 1..Len(l) : j # i => l[j] \in {" ", "\t", "\n", "\r", "\f"}

RatingOf(l) == CHOOSE d \in 1..5 : \E i \in 1..Len(l) : l[i] = Digits[d + 1]

\* the first line of the input of the current call, without its line break
FirstLine == SubSeq(in0, 1, IndexOf(in0, NL) - 1)

\* C15: the prompter accepts a line exactly when the line is, whitespace
\* around it apart, one digit from 1 to 5, and then stores the digit's value
\* in the field being prompted; any other line changes nothing, is answered
\* with "Unrecognized input" and the field is prompted again.  No value
\* outside 1..5 is ever stored in a mood field.
C15_AcceptsExactlyRatings ==
    /\ (pc # "idle" /\ nreads = 1 /\ lastRd = "nil") =>
          IF IsRatingLine(FirstLine)
          THEN /\ Mood(p, order[1]) = RatingOf(FirstLine)
               /\ \A k \in Prompts \ {order[1]} : Mood(p, k) = Mood(p0, k)
               /\ pc # "ask" \/ Len(order) = 2
               /\ \A i \in 1..Len(Written) : Written[i] # Unrecognized
          ELSE /\ p = p0
               /\ pc = "ask"
               /\ order = <<cur>>
               /\ Written = <<cur, Unrecognized>>
    /\ \A k \in Prompts : Mood(p, k) # Mood(p0, k) => Mood(p, k) \in 1..5

\* " 3 " was accepted as 3 and "12" rejected after it
C15_Witness ==
    /\ pc = "ask"
    /\ nreads = 2
    /\ in0 = <<" ", "3", " ", NL, "1", "2", NL>>
    /\ Mood(p, order[1]) = 3
    /\ Mood(p, order[2]) = 0
    /\ Written = <<order[1], order[2], Unrecognized>>

\* what is left to read: the bytes in the bufio.Reader and in the reader
Unread == Len(buf) + Len(input)

\* the mood fields that were 0 when the current call started
Unset0 == { k \in Prompts : Mood(p0, k) = 0 }

\* C16: PromptForMetadata terminates.  A call that has started returns; each
\* pass of a field's loop takes input from the stream or ends the call with
\* the stream's error; the loop of a field is left only with a valid line
\* read or with a failed read; and the call returns nil after every field
\* that was unset got a valid line, or the stream's error with the input
\* used up.
C16_Terminates ==
    /\ (pc \in {"range", "ask"}) ~> (pc = "done")
    /\ [][(pc = "ask" /\ nreads' = nreads + 1) =>
            /\ Unread' < Unread \/ (pc' = "done" /\ ret' = inErr)
            /\ pc' = "range" => (lastRd' = "nil" /\ Mood(p', cur) \in 1..5)
            /\ pc' = "done" => (lastRd' = inErr /\ ret' = inErr)]_vars
    /\ [](pc = "done" =>
            \/ /\ ret = "nil"
               /\ \A k \in Unset0 : Mood(p, k) \in 1..5
               /\ Len(ValidVals) = Cardinality(Unset0)
            \/ /\ ret = inErr
               /\ Unread = 0
               /\ Len(ValidVals) < Cardinality(Unset0))

\* a call that was answered with two lines it rejected and then found the
\* stream at its end
C16_Witness ==
    /\ pc = "done"
    /\ ret = "EOF"
    /\ nreads = 3
    /\ InvalidCount = 2
    /\ Unread = 0
    /\ p = p0

\* the input of the current call ends in bytes with no line break after them
Unterminated == in0 # <<>> /\ in0[Len(in0)] # NL

\* the fields the current call has set
FieldsSet == { k \in Prompts : Mood(p, k) # Mood(p0, k) }

\* C18: a last line with no line break after it is never applied.  When the
\* call has used up an input that ends without a line break, it has returned
\* the stream's error and the field it was prompting is still 0; at every
\* point the fields set are as many as the valid lines read that ended with
\* a line break.
C18_PartialLineNotApplied ==
    /\ (pc = "done" /\ Unterminated /\ Unread = 0 /\ lastRd # "nil") =>
          /\ ret = inErr
          /\ Mood(p, cur) = 0
    /\ pc # "idle" => Cardinality(FieldsSet) = Len(ValidVals)

\* the stream is "5" with no line break: the call returned the
\* end-of-stream error and set nothing
C18_Witness ==
    /\ pc = "done"
    /\ calls = 1
    /\ in0 = <<"5">>
    /\ ret = "EOF"
    /\ Written = <<cur>>
    /\ Mood(p, cur) = 0
    /\ p = p0

----------------------------------------------------------------------------
(* Further properties of PromptForMetadata, checked under SpecPrompt *)

\* C17: when PromptForMetadata returns nil, HighMood, LowMood and
\* AverageMood all hold values in 1..5 (the fields start in 0..5); Seconds,
\* Body, Path and ModTime are at every point of the call, and so when it
\* returns nil or an error, what they were when it started.
C17_MoodsSetOthersKept ==
    pc # "idle" =>
        /\ p.Seconds = p0.Seconds
        /\ p.Body = p0.Body
        /\ p.Path = p0.Path
        /\ p.ModTime = p0.ModTime
        /\ (pc = "done" /\ ret = "nil") =>
               \A k \in Prompts : Mood(p, k) \in 1..5

\* a call that found all three fields unset and returned nil
C17_Witness ==
    /\ pc = "done"
    /\ ret = "nil"
    /\ AllZero(p0)
    /\ AllSet(p)
    /\ nreads = 3
    /\ calls = 1

====
